---- MODULE Spec2Model ----
(***************************************************************************)
(* A model of grdb: GraphTraversalSource (src/lib.rs), the traversal       *)
(* iterators (src/vertex.rs) and PrefixSearchIterator (src/db.rs) over an  *)
(* ordered key-value store.  Keys and values are byte sequences; records   *)
(* are serialized with the bincode layout (u64 little endian, length       *)
(* prefixed strings and maps).                                             *)
(***************************************************************************)
EXTENDS Integers, Sequences, FiniteSets, Bags, TLC

VARIABLES
    db,          \* the store on disk: a function from keys to values
    pc,          \* "closed" | "idle" | "new_id" | "saved": where the source is
    context,     \* GraphTraversalSource.context (Cell<GraphContext>)
    call,        \* the label argument of the add_vertex_with_label call under way
    travs,       \* the live traversal objects, a bag: they are independent values;
                 \* db_calls counts the calls a traversal made on the database
    panicked,    \* an unwrap() failed
    ids,         \* history: the ids new_id returned, in order
    created,     \* history: the vertex add_vertex_with_label built, by id (of the
                 \* traversals that are live or were dropped)
    released,    \* history: ids whose add traversal has been dropped
    puts         \* history: number of put calls per vertex id

vars == <<db, pc, context, call, travs, panicked, ids, created, released,
          puts>>

\* ---------------------------------------------------------------- bounds
MaxId == 2
MaxTrav == 2
MaxScan == 1
\* the stores of SpecOrder: at most MaxStored vertices, ids up to MaxStoredId
MaxStored == 2
MaxStoredId == 10

\* ------------------------------------------------------------- constants
\* "sys_context"
KEY_SYS_CONTEXT == <<115, 121, 115, 95, 99, 111, 110, 116, 101, 120, 116>>
\* "vtx_"
KEY_PREFIX == <<118, 116, 120, 95>>
\* "vertex"
DEFAULT_LABEL == <<118, 101, 114, 116, 101, 120>>
\* "custom", the other label of the tests
CUSTOM_LABEL == <<99, 117, 115, 116, 111, 109>>

Labels == {DEFAULT_LABEL, CUSTOM_LABEL}

\* ---------------------------------------------------------------- Option
None == [tag |-> "None"]
Some(x) == [tag |-> "Some", val |-> x]
IsSome(o) == o.tag = "Some"

\* ------------------------------------------------------------ byte codecs
\* usize as bincode writes it: 8 bytes, little endian
RECURSIVE ser_le(_, _)
ser_le(n, width) ==
    IF width = 0 THEN <<>> ELSE <<n % 256>> \o ser_le(n \div 256, width - 1)

ser_usize(n) == ser_le(n, 8)

RECURSIVE de_usize(_)
de_usize(b) == IF b = <<>> THEN 0 ELSE Head(b) + 256 * de_usize(Tail(b))

\* String: length prefix, then the bytes
ser_string(s) == ser_usize(Len(s)) \o s

\* HashMap<String, String>: entry count, then each key and value
RECURSIVE ser_map(_)
ser_map(m) ==
    IF m = <<>> THEN <<>>
    ELSE ser_string(Head(m)[1]) \o ser_string(Head(m)[2]) \o ser_map(Tail(m))

\* Reads one length-prefixed string off the front of b: Ok with the string
\* and the rest, or Err when b is too short.
de_string(b) ==
    IF Len(b) < 8 THEN [ok |-> FALSE]
    ELSE LET n == de_usize(SubSeq(b, 1, 8))
         IN IF Len(b) < 8 + n THEN [ok |-> FALSE]
            ELSE [ok |-> TRUE, val |-> SubSeq(b, 9, 8 + n),
                  rest |-> SubSeq(b, 9 + n, Len(b))]

RECURSIVE de_map(_, _)
de_map(n, b) ==
    IF n = 0 THEN [ok |-> TRUE, val |-> <<>>, rest |-> b]
    ELSE LET k == de_string(b)
         IN IF ~k.ok THEN [ok |-> FALSE]
            ELSE LET v == de_string(k.rest)
                 IN IF ~v.ok THEN [ok |-> FALSE]
                    ELSE LET r == de_map(n - 1, v.rest)
                         IN IF ~r.ok THEN [ok |-> FALSE]
                            ELSE [ok |-> TRUE,
                                  val |-> <<<<k.val, v.val>>>> \o r.val,
                                  rest |-> r.rest]

\* GraphContext { lsn }
serialize_context(c) == ser_usize(c.lsn)

deserialize_context(b) ==
    IF Len(b) < 8 THEN [ok |-> FALSE]
    ELSE [ok |-> TRUE, val |-> [lsn |-> de_usize(SubSeq(b, 1, 8))]]

\* a constructor that ignores the label it is given
Vertex_new_default_label(id, label) ==
    [id |-> id, label |-> DEFAULT_LABEL, prop |-> <<>>]

\* Vertex { id, label, prop }
Vertex_new(id, label) == [id |-> id, label |-> label, prop |-> <<>>]

\* a serializer that leaves the label out
serialize_vertex_no_label(v) ==
    ser_usize(v.id) \o ser_string(<<>>)
        \o ser_usize(Len(v.prop)) \o ser_map(v.prop)

serialize_vertex(v) ==
    ser_usize(v.id) \o ser_string(v.label)
        \o ser_usize(Len(v.prop)) \o ser_map(v.prop)

deserialize_vertex(b) ==
    IF Len(b) < 8 THEN [ok |-> FALSE]
    ELSE LET l == de_string(SubSeq(b, 9, Len(b)))
         IN IF ~l.ok \/ Len(l.rest) < 8 THEN [ok |-> FALSE]
            ELSE LET m == de_map(de_usize(SubSeq(l.rest, 1, 8)),
                                 SubSeq(l.rest, 9, Len(l.rest)))
                 IN IF ~m.ok THEN [ok |-> FALSE]
                    ELSE [ok |-> TRUE,
                          val |-> [id |-> de_usize(SubSeq(b, 1, 8)),
                                   label |-> l.val, prop |-> m.val]]

\* ------------------------------------------------------------------ keys
\* the id as two digits, padded with a zero
Decimal_padded(n) == <<48 + ((n \div 10) % 10), 48 + (n % 10)>>

\* format!("{}", id): the unpadded decimal digits
RECURSIVE Decimal(_)
Decimal(n) ==
    IF n < 10 THEN <<48 + n>> ELSE Decimal(n \div 10) \o <<48 + (n % 10)>>

\* a key that leaves the id out
create_vertex_key_no_id(id) == KEY_PREFIX

create_vertex_key(id) == KEY_PREFIX \o Decimal(id)

starts_with(key, prefix) ==
    Len(key) >= Len(prefix) /\ SubSeq(key, 1, Len(prefix)) = prefix

\* the store's key order: bytewise lexicographic
RECURSIVE KeyLess(_, _)
KeyLess(a, b) ==
    IF b = <<>> THEN FALSE
    ELSE IF a = <<>> THEN TRUE
    ELSE IF Head(a) # Head(b) THEN Head(a) < Head(b)
    ELSE KeyLess(Tail(a), Tail(b))

\* ----------------------------------------------------------------- store
EmptyDb == [k \in {} |-> <<>>]

db_get(d, k) == IF k \in DOMAIN d THEN Some(d[k]) ELSE None

db_put(d, k, v) == [x \in DOMAIN d \cup {k} |-> IF x = k THEN v ELSE d[x]]

RECURSIVE SortedPairs(_, _)
SortedPairs(d, keys) ==
    IF keys = {} THEN <<>>
    ELSE LET k == CHOOSE x \in keys : \A y \in keys \ {x} : KeyLess(x, y)
         IN <<<<k, d[k]>>>> \o SortedPairs(d, keys \ {k})

\* an iterator that starts at the first key of the store
prefix_iterator_from_start(d, prefix) == SortedPairs(d, DOMAIN d)

\* database.prefix_iterator(prefix): an iterator over a snapshot of the store,
\* positioned at the first key >= prefix and running to the end of the store
\* (open_default sets no prefix extractor, so the store itself does not stop at
\* the end of the prefix).
prefix_iterator(d, prefix) ==
    SortedPairs(d, {k \in DOMAIN d : ~KeyLess(k, prefix)})

\* ---------------------------------------------------------- PrefixSearchIterator
\* PrefixSearchIterator::next: [it |-> the iterator afterwards, item |-> Option]
PrefixSearchIterator_next(ps) ==
    IF ps.prefix_iterator = <<>> THEN [it |-> ps, item |-> None]
    ELSE LET kv == Head(ps.prefix_iterator)
             it == [ps EXCEPT !.prefix_iterator = Tail(ps.prefix_iterator)]
         IN IF ~starts_with(kv[1], ps.prefix)
            THEN [it |-> it, item |-> None]
            ELSE [it |-> it, item |-> Some(kv)]

\* ------------------------------------------------------------ TraversalContext
EmptyVertices == [i \in {} |-> 0]

DirtyEntry_new(entry) == [dirty |-> TRUE, entry |-> entry]

TraversalContext(vertices) == [vertices |-> vertices]

\* the ids whose entry the loop of drop writes
DirtyIds(ctx) == {i \in DOMAIN ctx.vertices : ctx.vertices[i].dirty}

\* the puts the loop of drop issues, one per dirty entry: <<id, key, value>>
\* (the order of a HashMap is arbitrary; the keys are distinct, so it does not
\* show in the store)
RECURSIVE drop_loop(_, _)
drop_loop(ctx, todo) ==
    IF todo = {} THEN <<>>
    ELSE LET id == CHOOSE i \in todo : \A j \in todo : i <= j
         IN <<<<id, create_vertex_key(id),
                serialize_vertex(ctx.vertices[id].entry)>>>>
            \o drop_loop(ctx, todo \ {id})

\* a drop that writes nothing
drop_writes_none(ctx) == <<>>

\* a drop that writes every dirty entry twice
drop_writes_twice(ctx) ==
    drop_loop(ctx, DirtyIds(ctx)) \o drop_loop(ctx, DirtyIds(ctx))

drop_writes(ctx) == drop_loop(ctx, DirtyIds(ctx))

\* the store after a sequence of puts
RECURSIVE db_put_all(_, _)
db_put_all(d, writes) ==
    IF writes = <<>> THEN d
    ELSE db_put_all(db_put(d, Head(writes)[2], Head(writes)[3]), Tail(writes))

\* the context after the loop of drop: the loop borrows the entries immutably
\* and assigns no field
drop_context(ctx) == ctx

\* ----------------------------------------------------------------- traversals
Live == BagToSet(travs)

One(tr) == SetToBag({tr})

\* how many live traversals are of the given kind
LiveOfKind(kind) ==
    BagCardinality([tr \in {x \in Live : x.kind = kind} |-> travs[tr]])

\* the vertex records a store holds, decoded
StoredVertices(d) ==
    {deserialize_vertex(d[k]).val : k \in {x \in DOMAIN d : starts_with(x, KEY_PREFIX)}}

\* a pull that reads the store instead of the context
AddVertexTraversal_item_store(ctx, id) ==
    IF create_vertex_key(id) \in DOMAIN db
    THEN Some(deserialize_vertex(db[create_vertex_key(id)]).val)
    ELSE None

\* AddVertexTraversal::next: the item of a pull that took `id`
AddVertexTraversal_item(ctx, id) ==
    IF id \in DOMAIN ctx.vertices THEN Some(ctx.vertices[id].entry) ELSE None

\* a fetch that reads the store when it is spawned: its pull sees the store
\* without the vertices that were unflushed then
VertexWithIdTraversal_item_eager(d, id) ==
    IF \E x \in BagToSet(travs) :
           /\ x.kind = "with_id" /\ x.id = Some(id) /\ x.unflushed0
    THEN [ok |-> TRUE, item |-> None]
    ELSE LET got == db_get(d, create_vertex_key(id))
         IN IF ~IsSome(got) THEN [ok |-> TRUE, item |-> None]
            ELSE [ok |-> TRUE, item |-> Some(deserialize_vertex(got.val).val)]

\* a pull that looks into the contexts of the live add traversals before the
\* store
VertexWithIdTraversal_item_shared(d, id) ==
    LET holders == {x \in BagToSet(travs) :
                       x.kind = "add" /\ id \in DOMAIN x.context.vertices}
    IN IF holders # {}
       THEN [ok |-> TRUE,
             item |-> Some((CHOOSE x \in holders : TRUE).context.vertices[id].entry)]
       ELSE LET got == db_get(d, create_vertex_key(id))
            IN IF ~IsSome(got) THEN [ok |-> TRUE, item |-> None]
               ELSE [ok |-> TRUE, item |-> Some(deserialize_vertex(got.val).val)]

\* a pull that unwraps the Option of the record too
VertexWithIdTraversal_item_unwrap(d, id) ==
    LET got == db_get(d, create_vertex_key(id))
    IN IF ~IsSome(got) THEN [ok |-> FALSE]
       ELSE LET v == deserialize_vertex(got.val)
            IN IF v.ok THEN [ok |-> TRUE, item |-> Some(v.val)]
               ELSE [ok |-> FALSE]

\* VertexWithIdTraversal::next: the item of a pull that took `id`;
\* ok is FALSE when deserialize(..).unwrap() panics
VertexWithIdTraversal_item(d, id) ==
    LET got == db_get(d, create_vertex_key(id))
    IN IF ~IsSome(got) THEN [ok |-> TRUE, item |-> None]
       ELSE LET v == deserialize_vertex(got.val)
            IN IF v.ok THEN [ok |-> TRUE, item |-> Some(v.val)]
               ELSE [ok |-> FALSE]

\* a scan that a label mismatch ends
VertexTraversal_item_stops(ps, label) ==
    LET r == PrefixSearchIterator_next(ps)
    IN IF ~IsSome(r.item) THEN [ok |-> TRUE, it |-> r.it, item |-> None]
       ELSE LET v == deserialize_vertex(r.item.val[2])
            IN IF ~v.ok THEN [ok |-> FALSE]
               ELSE IF IsSome(label) /\ v.val.label # label.val
                    THEN [ok |-> TRUE, it |-> r.it, item |-> None]
                    ELSE [ok |-> TRUE, it |-> r.it, item |-> Some(v.val)]

\* VertexTraversal::next: [ok, it |-> prefix_search afterwards, item |-> Option]
RECURSIVE VertexTraversal_item(_, _)
VertexTraversal_item(ps, label) ==
    LET r == PrefixSearchIterator_next(ps)
    IN IF ~IsSome(r.item) THEN [ok |-> TRUE, it |-> r.it, item |-> None]
       ELSE LET v == deserialize_vertex(r.item.val[2])
            IN IF ~v.ok THEN [ok |-> FALSE]
               ELSE IF IsSome(label) /\ v.val.label # label.val
                    THEN VertexTraversal_item(r.it, label)
                    ELSE [ok |-> TRUE, it |-> r.it, item |-> Some(v.val)]

\* ------------------------------------------------------------------- source
NoSource == [closed |-> TRUE]

\* a constructor that does not persist the counter it initialises
new_context_not_persisted(d) ==
    LET got == db_get(d, KEY_SYS_CONTEXT)
    IN IF ~IsSome(got)
       THEN [ok |-> TRUE, context |-> [lsn |-> 0], db |-> d]
       ELSE LET c == deserialize_context(got.val)
            IN IF c.ok
               THEN [ok |-> TRUE, context |-> c.val, db |-> d]
               ELSE [ok |-> FALSE]

\* a constructor that starts from 0 whatever the store holds
new_context_from_zero(d) ==
    [ok |-> TRUE, context |-> [lsn |-> 0],
     db |-> db_put(d, KEY_SYS_CONTEXT, serialize_context([lsn |-> 0]))]

\* GraphTraversalSource::new, the match on database.get(KEY_SYS_CONTEXT):
\* [ok, context, db]
new_context(d) ==
    LET got == db_get(d, KEY_SYS_CONTEXT)
    IN IF ~IsSome(got)
       THEN [ok |-> TRUE, context |-> [lsn |-> 0],
             db |-> db_put(d, KEY_SYS_CONTEXT, serialize_context([lsn |-> 0]))]
       ELSE LET c == deserialize_context(got.val)
            IN IF c.ok
               THEN [ok |-> TRUE, context |-> c.val, db |-> d]
               ELSE [ok |-> FALSE]

\* a save_context that does not reach the store
save_context_skipped(d, ctx) == d

\* save_context: the store after the put
save_context(d, ctx) == db_put(d, KEY_SYS_CONTEXT, serialize_context(ctx))

\* new_id, lines 115-117: the context with the counter advanced
new_id_context(ctx) == [ctx EXCEPT !.lsn = ctx.lsn + 1]

Init ==
    /\ db = EmptyDb
    /\ pc = "closed"
    /\ context = NoSource
    /\ call = None
    /\ travs = EmptyBag
    /\ panicked = FALSE
    /\ ids = <<>>
    /\ created = EmptyVertices
    /\ released = {}
    /\ puts = [i \in 1..MaxId |-> 0]

history == <<ids, created, released, puts>>

\* GraphTraversalSource::new(path)
new ==
    /\ pc = "closed" /\ ~panicked
    /\ LET r == new_context(db)
       IN IF r.ok
          THEN /\ db' = r.db
               /\ context' = r.context
               /\ pc' = "idle"
               /\ UNCHANGED panicked
          ELSE /\ panicked' = TRUE
               /\ UNCHANGED <<db, context, pc>>
    /\ UNCHANGED <<call, travs, history>>

\* add_vertex_with_label enters new_id: lines 115-117 advance the counter in
\* memory
new_id_begin(label) ==
    /\ pc = "idle" /\ ~panicked
    /\ context.lsn < MaxId
    /\ BagCardinality(travs) < MaxTrav
    /\ context' = new_id_context(context)
    /\ call' = Some(label)
    /\ pc' = "new_id"
    /\ UNCHANGED <<db, travs, panicked, history>>

\* add_vertex(): add_vertex_with_label(DEFAULT_LABEL)
add_vertex == new_id_begin(DEFAULT_LABEL)

add_vertex_with_label == \E label \in Labels : new_id_begin(label)

\* new_id, lines 118-119: save_context, then the id is returned
new_id_save ==
    /\ pc = "new_id" /\ ~panicked
    /\ db' = save_context(db, context)
    /\ ids' = Append(ids, context.lsn)
    /\ pc' = "saved"
    /\ UNCHANGED <<context, call, travs, panicked, created, released, puts>>

\* add_vertex_with_label, lines 50-60: the vertex, its context, the traversal
add_vertex_build ==
    /\ pc = "saved" /\ ~panicked
    /\ LET id == context.lsn
           vertex == Vertex_new(id, call.val)
           vertices == [i \in {id} |-> DirtyEntry_new(vertex)]
       IN /\ travs' = travs (+) One(
                 [kind |-> "add", id |-> Some(id),
                  context |-> TraversalContext(vertices),
                  yielded |-> <<>>, done |-> FALSE, db_calls |-> 0])
          /\ created' = [i \in DOMAIN created \cup {id} |->
                            IF i = id THEN vertex ELSE created[i]]
    /\ call' = None
    /\ pc' = "idle"
    /\ UNCHANGED <<db, context, panicked, ids, released, puts>>

\* vertices() and vertices_with_label(label): label is an Option.
\* stored0 and released0 remember the stored vertices and the released ids at
\* the spawn.
spawn_vertices(label) ==
    /\ pc = "idle" /\ ~panicked
    /\ BagCardinality(travs) < MaxTrav
    /\ LiveOfKind("vertices") < MaxScan
    /\ travs' = travs (+) One(
           [kind |-> "vertices",
            prefix_search |-> [prefix_iterator |-> prefix_iterator(db, KEY_PREFIX),
                               prefix |-> KEY_PREFIX],
            label |-> label,
            context |-> TraversalContext(EmptyVertices),
            yielded |-> <<>>, done |-> FALSE,
            stored0 |-> StoredVertices(db), released0 |-> released,
            db_calls |-> 1])
    /\ UNCHANGED <<db, pc, context, call, panicked, history>>

vertices == spawn_vertices(None)

vertices_with_label == \E label \in Labels : spawn_vertices(Some(label))

\* vertex_with_id(id); target remembers the id
vertex_with_id ==
    /\ pc = "idle" /\ ~panicked
    /\ BagCardinality(travs) < MaxTrav
    /\ \E id \in 1..MaxId :
          travs' = travs (+) One(
              [kind |-> "with_id", id |-> Some(id), target |-> id,
               context |-> TraversalContext(EmptyVertices),
               yielded |-> <<>>, done |-> FALSE, db_calls |-> 0])
    /\ UNCHANGED <<db, pc, context, call, panicked, history>>

\* vertex_with_id(id), observed: unflushed0 remembers whether a live add
\* traversal held the vertex of that id at the spawn
vertex_with_id_observed ==
    /\ pc = "idle" /\ ~panicked
    /\ BagCardinality(travs) < MaxTrav
    /\ \E id \in 1..MaxId :
          travs' = travs (+) One(
              [kind |-> "with_id", id |-> Some(id), target |-> id,
               context |-> TraversalContext(EmptyVertices),
               yielded |-> <<>>, done |-> FALSE,
               unflushed0 |-> \E x \in Live :
                                 x.kind = "add" /\ id \in DOMAIN x.context.vertices,
               db_calls |-> 0])
    /\ UNCHANGED <<db, pc, context, call, panicked, history>>

\* a pull that keeps what it returned in the context, as a dirty entry
Returned_kept_dirty(tr, item) ==
    IF IsSome(item)
    THEN [tr EXCEPT !.yielded = Append(tr.yielded, item.val),
                    !.context = TraversalContext(
                        [i \in DOMAIN tr.context.vertices \cup {item.val.id} |->
                            IF i = item.val.id THEN DirtyEntry_new(item.val)
                            ELSE tr.context.vertices[i]])]
    ELSE [tr EXCEPT !.done = TRUE]

\* what a pull that returned `item` leaves in the history fields of a traversal
Returned(tr, item) ==
    IF IsSome(item) THEN [tr EXCEPT !.yielded = Append(tr.yielded, item.val)]
    ELSE [tr EXCEPT !.done = TRUE]

\* the traversal tr becomes tr2
Becomes(tr, tr2) == travs' = (travs (-) One(tr)) (+) One(tr2)

\* AddVertexTraversal::next
AddVertexTraversal_next(tr) ==
    /\ pc = "idle" /\ ~panicked
    /\ tr.kind = "add"
    /\ IF ~IsSome(tr.id)
       THEN Becomes(tr, Returned(tr, None))
       ELSE Becomes(tr, Returned([tr EXCEPT !.id = None],
                                 AddVertexTraversal_item(tr.context, tr.id.val)))
    /\ UNCHANGED <<db, pc, context, call, panicked, history>>

\* a fetch whose pull reads the id and leaves it in place
VertexWithIdTraversal_next_keeps_id(tr) ==
    /\ pc = "idle" /\ ~panicked
    /\ tr.kind = "with_id"
    /\ LET r == VertexWithIdTraversal_item(db, tr.target)
           read == [tr EXCEPT !.db_calls = @ + 1]
       IN IF r.ok
          THEN /\ Becomes(tr, Returned(read, r.item))
               /\ UNCHANGED panicked
          ELSE /\ Becomes(tr, read)
               /\ panicked' = TRUE
    /\ UNCHANGED <<db, pc, context, call, history>>

\* VertexWithIdTraversal::next
VertexWithIdTraversal_next(tr) ==
    /\ pc = "idle" /\ ~panicked
    /\ tr.kind = "with_id"
    /\ IF ~IsSome(tr.id)
       THEN /\ Becomes(tr, Returned(tr, None))
            /\ UNCHANGED panicked
       ELSE LET r == VertexWithIdTraversal_item(db, tr.id.val)
                \* self.id.take() and the one database.get of the pull
                taken == [tr EXCEPT !.id = None, !.db_calls = @ + 1]
            IN IF r.ok
               THEN /\ Becomes(tr, Returned(taken, r.item))
                    /\ UNCHANGED panicked
               ELSE /\ Becomes(tr, taken)
                    /\ panicked' = TRUE
    /\ UNCHANGED <<db, pc, context, call, history>>

\* VertexTraversal::next
VertexTraversal_next(tr) ==
    /\ pc = "idle" /\ ~panicked
    /\ tr.kind = "vertices"
    /\ LET r == VertexTraversal_item(tr.prefix_search, tr.label)
       IN IF r.ok
          THEN /\ Becomes(tr, Returned([tr EXCEPT !.prefix_search = r.it], r.item))
               /\ UNCHANGED panicked
          ELSE /\ panicked' = TRUE
               /\ UNCHANGED travs
    /\ UNCHANGED <<db, pc, context, call, history>>

\* the traversal tr goes out of scope: Drop for TraversalContext
drop(tr) ==
    /\ pc = "idle" /\ ~panicked
    /\ LET writes == drop_writes(tr.context)
       IN /\ db' = db_put_all(db, writes)
          /\ puts' = [i \in DOMAIN puts |->
                         puts[i] + Cardinality({w \in DOMAIN writes : writes[w][1] = i})]
    /\ released' = IF tr.kind = "add"
                   THEN released \cup DOMAIN tr.context.vertices ELSE released
    /\ travs' = travs (-) One(tr)
    /\ UNCHANGED <<pc, context, call, panicked, ids, created>>

\* the source goes out of scope; its traversals borrow it, so none is live
close ==
    /\ pc = "idle" /\ ~panicked
    /\ travs = EmptyBag
    /\ pc' = "closed"
    /\ context' = NoSource
    /\ UNCHANGED <<db, call, travs, panicked, history>>

\* the process dies at any point: memory is lost, no destructor runs; the
\* vertices of the traversals that die with it are forgotten
crash ==
    /\ pc # "closed"
    /\ pc' = "closed"
    /\ context' = NoSource
    /\ call' = None
    /\ travs' = EmptyBag
    /\ panicked' = FALSE
    /\ created' = [i \in released |-> created[i]]
    /\ UNCHANGED <<db, ids, released, puts>>

Next ==
    \/ new
    \/ add_vertex
    \/ add_vertex_with_label
    \/ new_id_save
    \/ add_vertex_build
    \/ vertices
    \/ vertices_with_label
    \/ vertex_with_id
    \/ \E tr \in Live : AddVertexTraversal_next(tr)
    \/ \E tr \in Live : VertexWithIdTraversal_next(tr)
    \/ \E tr \in Live : VertexTraversal_next(tr)
    \/ \E tr \in Live : drop(tr)
    \/ close
    \/ crash

Spec == Init /\ [][Next]_vars

\* a program that adds vertices and fetches them by id, with the fetches
\* observed
NextFetch ==
    \/ new
    \/ add_vertex
    \/ add_vertex_with_label
    \/ new_id_save
    \/ add_vertex_build
    \/ vertex_with_id_observed
    \/ \E tr \in Live : AddVertexTraversal_next(tr)
    \/ \E tr \in Live : VertexWithIdTraversal_next(tr)
    \/ \E tr \in Live : drop(tr)
    \/ close
    \/ crash

SpecFetch == Init /\ [][NextFetch]_vars

\* a store as MaxStoredId calls of add_vertex leave it when the traversals of
\* the ids in `stored` were dropped and the others died in a crash
StoreAfter(stored) ==
    db_put_all(save_context(EmptyDb, [lsn |-> MaxStoredId]),
               drop_writes(TraversalContext(
                   [i \in stored |-> DirtyEntry_new(Vertex_new(i, DEFAULT_LABEL))])))

\* the source is about to be opened on such a store
InitOrder ==
    \E stored \in {x \in SUBSET (1..MaxStoredId) : Cardinality(x) <= MaxStored} :
        /\ db = StoreAfter(stored)
        /\ pc = "closed"
        /\ context = NoSource
        /\ call = None
        /\ travs = EmptyBag
        /\ panicked = FALSE
        /\ ids = [i \in 1..MaxStoredId |-> i]
        /\ created = [i \in stored |-> Vertex_new(i, DEFAULT_LABEL)]
        /\ released = stored
        /\ puts = [i \in 1..MaxStoredId |-> IF i \in stored THEN 1 ELSE 0]

\* a program that opens the store and scans it
NextOrder ==
    \/ new
    \/ vertices
    \/ \E tr \in Live : VertexTraversal_next(tr)
    \/ \E tr \in Live : drop(tr)
    \/ close
    \/ crash

SpecOrder == InitOrder /\ [][NextOrder]_vars

\* ------------------------------------------------------------------- claims
\* the counter persisted under sys_context
Persisted == deserialize_context(db[KEY_SYS_CONTEXT]).val.lsn

HasCounter == KEY_SYS_CONTEXT \in DOMAIN db

\* the elements of a sequence
Range(s) == {s[i] : i \in DOMAIN s}

\* ids that a live add traversal holds in its context
LiveAddIds == UNION {DOMAIN tr.context.vertices : tr \in {x \in Live : x.kind = "add"}}

\* a step pulled the traversal tr: one copy of it is gone, none was dropped
Pulled(tr) ==
    /\ CopiesIn(tr, travs') < CopiesIn(tr, travs)
    /\ BagCardinality(travs') = BagCardinality(travs)

\* a step left one more copy of the traversal tr2
Came(tr2) == CopiesIn(tr2, travs') > CopiesIn(tr2, travs)

\* C1: the ids new_id returns are strictly increasing, hence pairwise distinct,
\* also across a reopen of the store, and the last id returned is the counter
\* persisted under sys_context.
C1_IdsIncreaseAndMatchCounter ==
    /\ \A i, j \in DOMAIN ids : i < j => ids[i] < ids[j]
    /\ ids # <<>> => HasCounter /\ Persisted = ids[Len(ids)]

\* two ids were returned, the second after the store was reopened: the
\* traversal of the first died in a crash
C1_Witness ==
    /\ pc = "saved"
    /\ Len(ids) = 2
    /\ ids[1] \notin released
    /\ travs = EmptyBag

\* C2: the persisted counter and the counter in memory are never below an id
\* that was returned, whatever crashed, so that no id is returned twice.
C2_CounterNeverBelowIds ==
    /\ HasCounter => \A i \in DOMAIN ids : ids[i] <= Persisted
    /\ pc # "closed" => \A i \in DOMAIN ids : ids[i] <= context.lsn
    /\ \A i, j \in DOMAIN ids : i # j => ids[i] # ids[j]

\* a crash after id 1 was returned and before its vertex was flushed left a
\* gap: id 1 has no record, id 2 was allocated after the reopen
C2_Witness ==
    /\ ids = <<1, 2>>
    /\ DOMAIN created = {2}
    /\ create_vertex_key(1) \notin DOMAIN db
    /\ pc = "idle"

\* C3: once an add traversal is released, however far it was pulled, its
\* vertex is in the store, a pull of vertex_with_id(id) finds it, and a drained
\* vertices() traversal spawned afterwards has yielded it.
C3_FlushOnDrop ==
    /\ \A id \in released :
          /\ create_vertex_key(id) \in DOMAIN db
          /\ VertexWithIdTraversal_item(db, id).ok
          /\ IsSome(VertexWithIdTraversal_item(db, id).item)
    /\ \A tr \in Live :
          (tr.kind = "vertices" /\ tr.label = None /\ tr.done)
              => \A id \in tr.released0 :
                    \E v \in Range(tr.yielded) : v.id = id

\* the add traversal of vertex 1 is released: the record is in the store and a
\* vertices() traversal spawned afterwards has yielded the vertex
C3_Witness ==
    /\ released = {1}
    /\ create_vertex_key(1) \in DOMAIN db
    /\ \E tr \in Live :
          /\ tr.kind = "vertices" /\ tr.label = None /\ tr.done
          /\ tr.released0 = {1}
          /\ tr.yielded = <<created[1]>>

\* C4: each vertex of an add traversal is put exactly once, by the drop of the
\* traversal: never while the traversal is live, once when it is released.
C4_WrittenExactlyOnce ==
    /\ \A id \in DOMAIN puts : puts[id] = IF id \in released THEN 1 ELSE 0
    /\ \A id \in LiveAddIds :
          id \notin released /\ create_vertex_key(id) \notin DOMAIN db

\* vertex 1 was put once, at the release of its traversal; the traversal of
\* vertex 2 is live, was pulled once, and vertex 2 was not put
C4_Witness ==
    /\ puts[1] = 1 /\ puts[2] = 0
    /\ released = {1}
    /\ \E tr \in Live :
          tr.kind = "add" /\ ~IsSome(tr.id) /\ 2 \in DOMAIN tr.context.vertices

\* a step dropped the traversal tr: its destructor ran
Dropped(tr) ==
    /\ CopiesIn(tr, travs') < CopiesIn(tr, travs)
    /\ BagCardinality(travs') = BagCardinality(travs) - 1
    /\ pc' = "idle"

\* C5: the flush clears the dirty flag of every entry it has written, so that
\* a second flush of the same context would write nothing.
C5_FlushClearsDirty ==
    [][\A tr \in Live :
          Dropped(tr) => /\ DirtyIds(drop_context(tr.context)) = {}
                         /\ drop_writes(drop_context(tr.context)) = <<>>]_vars

\* C6: the entity an add traversal yields, the record its flush stores and the
\* entity vertex_with_id(id) yields are equal: id, label and properties.
C6_RoundTrip ==
    /\ \A tr \in Live :
          (tr.kind = "add" /\ tr.yielded # <<>>)
              => \A id \in DOMAIN tr.context.vertices :
                    tr.yielded = <<created[id]>>
    /\ \A tr \in Live :
          (tr.kind = "with_id" /\ tr.yielded # <<>>)
              => tr.target \in released /\ tr.yielded = <<created[tr.target]>>
    /\ \A id \in released :
          VertexWithIdTraversal_item(db, id) =
              [ok |-> TRUE, item |-> Some(created[id])]

\* vertex 1, with the label "custom", was read back after vertex 2 was added
\* and flushed as well
C6_Witness ==
    /\ released = {1, 2}
    /\ created[1].label = CUSTOM_LABEL
    /\ \E tr \in Live :
          /\ tr.kind = "with_id" /\ tr.target = 1
          /\ tr.yielded = <<Vertex_new(1, CUSTOM_LABEL)>>

\* C7: a vertices() traversal yields only vertices that were flushed before its
\* spawn, none twice, and once drained it has yielded all of them: the
\* sys_context record is never yielded and does not end the scan early.
C7_VerticesYieldsAllAdded ==
    \A tr \in Live :
        (tr.kind = "vertices" /\ tr.label = None) =>
            LET added == {created[i] : i \in tr.released0}
            IN /\ Range(tr.yielded) \subseteq added
               /\ Cardinality(Range(tr.yielded)) = Len(tr.yielded)
               /\ tr.done => Range(tr.yielded) = added

\* both vertices that were added are released, and a drained vertices()
\* traversal has yielded the two
C7_Witness ==
    /\ DOMAIN created = {1, 2}
    /\ LiveAddIds = {}
    /\ \E tr \in Live :
          /\ tr.kind = "vertices" /\ tr.label = None /\ tr.done
          /\ tr.released0 = {1, 2}
          /\ Len(tr.yielded) = 2

\* C8: a vertices_with_label(L) traversal yields only stored vertices whose
\* label is L, none twice, and once drained it has yielded all of them, also
\* those stored behind a vertex with another label.
C8_LabelFiltering ==
    \A tr \in Live :
        (tr.kind = "vertices" /\ IsSome(tr.label)) =>
            LET matching == {v \in tr.stored0 : v.label = tr.label.val}
            IN /\ Range(tr.yielded) \subseteq matching
               /\ Cardinality(Range(tr.yielded)) = Len(tr.yielded)
               /\ tr.done => Range(tr.yielded) = matching

\* vertex 1 has the default label and is stored before vertex 2, which has the
\* label "custom": the drained scan for "custom" has yielded vertex 2
C8_Witness ==
    \E tr \in Live :
        /\ tr.kind = "vertices" /\ tr.label = Some(CUSTOM_LABEL) /\ tr.done
        /\ tr.stored0 = {Vertex_new(1, DEFAULT_LABEL), Vertex_new(2, CUSTOM_LABEL)}
        /\ tr.yielded = <<Vertex_new(2, CUSTOM_LABEL)>>

\* C9: the first pull of vertex_with_id(id), for an id whose vertex was never
\* flushed (never allocated, or allocated and not yet released), returns the
\* end of the sequence after one database.get, without a panic, and changes
\* neither the store nor the counter.
C9_MissingId ==
    [][\A tr \in Live :
          (/\ tr.kind = "with_id" /\ IsSome(tr.id)
           /\ tr.target \notin released
           /\ Pulled(tr))
              => /\ Came([tr EXCEPT !.id = None, !.done = TRUE,
                                    !.db_calls = tr.db_calls + 1])
                 /\ db' = db
                 /\ context' = context
                 /\ ~panicked']_vars

\* the pull of vertex_with_id(id) has just returned the end of the sequence for
\* an id that is allocated and whose add traversal is still live
C9_Witness ==
    \E tr \in Live :
        /\ tr.kind = "with_id" /\ ~IsSome(tr.id)
        /\ tr.done /\ tr.yielded = <<>>
        /\ tr.target \in Range(ids) /\ tr.target \in LiveAddIds
        /\ tr.db_calls = 1

\* C10: the first pull of an add traversal returns the entry its context
\* holds under the id, without a call on the database (db_calls stays 0), and
\* the store holds no record for the id at that time.
C10_ReadYourWrites ==
    [][\A tr \in Live :
          (tr.kind = "add" /\ IsSome(tr.id) /\ Pulled(tr))
              => /\ Came([tr EXCEPT !.id = None,
                                    !.yielded = <<tr.context.vertices[tr.id.val].entry>>])
                 /\ db' = db
                 /\ create_vertex_key(tr.id.val) \notin DOMAIN db']_vars

\* an add traversal has yielded its vertex, labelled "custom", from its context
\* while the store has no record for it
C10_Witness ==
    \E tr \in Live :
        /\ tr.kind = "add" /\ ~IsSome(tr.id) /\ ~tr.done
        /\ tr.yielded = <<Vertex_new(1, CUSTOM_LABEL)>>
        /\ tr.context.vertices[1].dirty
        /\ create_vertex_key(1) \notin DOMAIN db
        /\ tr.db_calls = 0

\* C11: traversals are isolated. The context of a reading traversal holds
\* nothing, the contexts of two add traversals hold different ids and an add
\* traversal is one object; a reading traversal has yielded only vertices whose
\* add traversal was released, never one that a live add traversal still holds,
\* and the store has no record of such a vertex.
C11_Isolation ==
    /\ \A tr \in Live :
          tr.kind # "add" =>
              /\ tr.context.vertices = EmptyVertices
              /\ \A v \in Range(tr.yielded) :
                    v.id \in released /\ v.id \notin LiveAddIds
    /\ \A tr \in Live :
          tr.kind = "add" =>
              /\ CopiesIn(tr, travs) = 1
              /\ \A other \in Live \ {tr} :
                    other.kind = "add" =>
                        DOMAIN other.context.vertices \cap DOMAIN tr.context.vertices = {}
    /\ \A id \in LiveAddIds : create_vertex_key(id) \notin DOMAIN db

\* the add traversal of vertex 2 is live and has yielded it; a fetch of id 2
\* pulled meanwhile has ended without a vertex
C11_Witness ==
    /\ \E tr \in Live :
          /\ tr.kind = "add" /\ DOMAIN tr.context.vertices = {2}
          /\ Len(tr.yielded) = 1
    /\ \E tr \in Live :
          /\ tr.kind = "with_id" /\ tr.target = 2
          /\ tr.done /\ tr.yielded = <<>>
    /\ released = {1}

\* C12: after the first pull of vertex_with_id(id) has found the record of id,
\* the context of the traversal holds the loaded vertex under id, as a clean
\* entry.
C12_FetchCachesVertex ==
    \A tr \in Live :
        (tr.kind = "with_id" /\ tr.yielded # <<>>) =>
            /\ tr.target \in DOMAIN tr.context.vertices
            /\ tr.context.vertices[tr.target] =
                   [dirty |-> FALSE, entry |-> tr.yielded[1]]

\* a step spawned the traversal tr2
Spawned(tr2) ==
    /\ Came(tr2)
    /\ BagCardinality(travs') = BagCardinality(travs) + 1

\* C13: the traversals of vertices(), vertices_with_label() and
\* vertex_with_id() never write: their spawn, each of their pulls and their
\* release leave the whole store, vertex records and counter, as it was, and
\* the counter in memory too; their context has no dirty entry at any time, so
\* the flush of the release has nothing to write.
C13_ReadersNeverWrite ==
    [][/\ \A tr \in Live :
             tr.kind # "add" =>
                 /\ DirtyIds(tr.context) = {}
                 /\ drop_writes(tr.context) = <<>>
                 /\ (Pulled(tr) \/ Dropped(tr)) =>
                        db' = db /\ context' = context /\ puts' = puts
       /\ \A tr2 \in BagToSet(travs') :
             (tr2.kind # "add" /\ Spawned(tr2)) =>
                 db' = db /\ context' = context /\ puts' = puts]_vars

\* a vertices() traversal has yielded the two stored vertices and is drained,
\* next to a fetch that has yielded vertex 1: the store holds what it held at
\* the spawn of the scan and each vertex was put once
C13_Witness ==
    /\ \E tr \in Live :
          /\ tr.kind = "vertices" /\ tr.done /\ Len(tr.yielded) = 2
          /\ StoredVertices(db) = tr.stored0
    /\ \E tr \in Live :
          tr.kind = "with_id" /\ tr.yielded = <<created[1]>>
    /\ puts = [i \in 1..MaxId |-> IF i \in {1, 2} THEN 1 ELSE 0]

\* the item the next pull of the traversal tr returns, in the current state
NextItem(tr) ==
    IF tr.kind = "vertices"
    THEN VertexTraversal_item(tr.prefix_search, tr.label).item
    ELSE IF ~IsSome(tr.id) THEN None
    ELSE IF tr.kind = "add" THEN AddVertexTraversal_item(tr.context, tr.id.val)
    ELSE VertexWithIdTraversal_item(db, tr.id.val).item

\* C14: a traversal that has returned the end of the sequence returns it at
\* every later pull, whatever the store holds by then: in every state the next
\* pull of a traversal that is done returns None, and no step adds to what a
\* done traversal has yielded. The traversals of add and of vertex_with_id
\* yield at most one vertex: their id is gone once they were pulled.
C14_ExhaustedIsAbsorbing ==
    [][/\ \A tr \in Live :
             /\ tr.done => NextItem(tr) = None
             /\ tr.kind \in {"add", "with_id"} =>
                    /\ Len(tr.yielded) <= 1
                    /\ (tr.done \/ tr.yielded # <<>>) => ~IsSome(tr.id)
             /\ (tr.done /\ Pulled(tr)) =>
                    \A tr2 \in BagToSet(travs') :
                        Came(tr2) => tr2.done /\ tr2.yielded = tr.yielded
       /\ \A tr \in Live :
             Pulled(tr) =>
                 \A tr2 \in BagToSet(travs') :
                     Came(tr2) =>
                         \/ tr2.yielded = tr.yielded
                         \/ /\ ~tr.done
                            /\ Len(tr2.yielded) = Len(tr.yielded) + 1
                            /\ SubSeq(tr2.yielded, 1, Len(tr.yielded)) = tr.yielded]_vars

\* a fetch of id 1 was pulled before vertex 1 was stored and has ended without
\* a vertex; the add traversal of vertex 1 was released since, so the record
\* is in the store now
C14_Witness ==
    /\ \E tr \in Live :
          /\ tr.kind = "with_id" /\ tr.target = 1
          /\ tr.done /\ tr.yielded = <<>> /\ tr.db_calls = 1
    /\ 1 \in released
    /\ IsSome(VertexWithIdTraversal_item(db, 1).item)

\* C15: add_vertex_with_label(label) builds a traversal over a new context
\* that holds one entry, dirty, under the id new_id has just returned: the
\* vertex of that id with the label of the call ("vertex" or the label passed)
\* and no property. The first pull yields that entry, the second returns the
\* end of the sequence, so the traversal yields exactly one vertex.
C15_AddYieldsTheNewVertex ==
    [][/\ (pc = "idle" /\ pc' = "new_id") =>
             \E label \in Labels : call' = Some(label)
       /\ (pc = "saved" /\ pc' = "idle") =>
             LET id == ids[Len(ids)]
                 vertex == [id |-> id, label |-> call.val, prop |-> <<>>]
             IN Spawned([kind |-> "add", id |-> Some(id),
                         context |-> [vertices |->
                             [i \in {id} |-> [dirty |-> TRUE, entry |-> vertex]]],
                         yielded |-> <<>>, done |-> FALSE, db_calls |-> 0])
       /\ \A tr \in Live :
             tr.kind = "add" =>
                 LET held == DOMAIN tr.context.vertices
                     id == CHOOSE i \in held : TRUE
                     vertex == tr.context.vertices[id].entry
                 IN /\ Cardinality(held) = 1
                    /\ id \in Range(ids)
                    /\ tr.context.vertices[id].dirty
                    /\ vertex.id = id /\ vertex.label \in Labels
                    /\ vertex.prop = <<>>
                    /\ IsSome(tr.id) => tr.id.val = id /\ tr.yielded = <<>> /\ ~tr.done
                    /\ ~IsSome(tr.id) => tr.yielded = <<vertex>>
                    /\ (IsSome(tr.id) /\ Pulled(tr)) =>
                           Came([tr EXCEPT !.id = None, !.yielded = <<vertex>>])
                    /\ (~IsSome(tr.id) /\ Pulled(tr)) =>
                           Came([tr EXCEPT !.done = TRUE])]_vars

\* the traversal of add_vertex_with_label("custom") has yielded vertex 2 and
\* then returned the end of the sequence; its context holds vertex 2 only
C15_Witness ==
    \E tr \in Live :
        /\ tr.kind = "add" /\ tr.done
        /\ tr.yielded = <<Vertex_new(2, CUSTOM_LABEL)>>
        /\ DOMAIN tr.context.vertices = {2}
        /\ tr.context.vertices[2] = DirtyEntry_new(Vertex_new(2, CUSTOM_LABEL))

\* the last id new_id has returned, 0 when it has returned none
LastId == IF ids = <<>> THEN 0 ELSE ids[Len(ids)]

\* C16: an open source has a persisted counter: the first open of a store
\* wrote 0, and an open of a store that has the counter loaded it and left it
\* as it was, so the persisted counter is the last id returned (0 if none).
\* Between the operations of the source the counter in memory is the persisted
\* one; they differ only inside new_id, between the increment and the save.
C16_CounterInMemoryIsPersisted ==
    /\ pc # "closed" => HasCounter
    /\ HasCounter =>
          /\ db[KEY_SYS_CONTEXT] = serialize_context([lsn |-> LastId])
          /\ Persisted = LastId
    /\ pc \in {"idle", "saved"} => context = [lsn |-> Persisted]
    /\ pc = "new_id" => context = [lsn |-> Persisted + 1]

\* the source was opened again on a store whose counter is 1: id 1 was
\* returned, its traversal died with the process before its release, and the
\* new source holds 1
C16_Witness ==
    /\ pc = "idle"
    /\ ids = <<1>>
    /\ 1 \notin released
    /\ travs = EmptyBag
    /\ context = [lsn |-> 1]
    /\ Persisted = 1

\* the keys of the vertex records of the store
VertexKeys == {k \in DOMAIN db : starts_with(k, KEY_PREFIX)}

\* C17: every record of the store under a key that starts with "vtx_" decodes
\* to a vertex, its key is "vtx_" followed by the decimal digits of the id of
\* that vertex, and the id is at least 1 and at most the persisted counter. No
\* id is put twice, and the record under the key of an id is the vertex that
\* was created with that id: no flush has replaced a record.
C17_RecordsKeyedByOwnId ==
    /\ \A k \in VertexKeys :
          LET v == deserialize_vertex(db[k])
          IN /\ v.ok
             /\ k = KEY_PREFIX \o Decimal(v.val.id)
             /\ 1 <= v.val.id /\ v.val.id <= Persisted
             /\ v.val.id \in released
             /\ v.val = created[v.val.id]
    /\ \A id \in released : KEY_PREFIX \o Decimal(id) \in VertexKeys
    /\ \A id \in DOMAIN puts : puts[id] <= 1

\* the store holds the records of vertex 1 and vertex 2, which have different
\* labels, each under its own key and each put once
C17_Witness ==
    /\ VertexKeys = {KEY_PREFIX \o <<49>>, KEY_PREFIX \o <<50>>}
    /\ deserialize_vertex(db[KEY_PREFIX \o <<49>>]).val = Vertex_new(1, CUSTOM_LABEL)
    /\ deserialize_vertex(db[KEY_PREFIX \o <<50>>]).val = Vertex_new(2, DEFAULT_LABEL)
    /\ puts[1] = 1 /\ puts[2] = 1
    /\ Persisted = 2

\* C18: vertex_with_id(id) reads nothing when it is spawned: until its first
\* pull the traversal has made no call on the store. The first pull reads the
\* store of that moment: if the add traversal of the id was released by then,
\* also when it was still unflushed at the spawn, the pull yields the vertex
\* after one database.get.
C18_FetchIsLazy ==
    [][/\ \A tr \in Live :
             (tr.kind = "with_id" /\ IsSome(tr.id)) =>
                 /\ tr.db_calls = 0 /\ tr.yielded = <<>> /\ ~tr.done
                 /\ (tr.target \in released /\ Pulled(tr)) =>
                        Came([tr EXCEPT !.id = None, !.db_calls = 1,
                                        !.yielded = <<created[tr.target]>>])
       /\ \A tr2 \in BagToSet(travs') :
             (tr2.kind = "with_id" /\ Spawned(tr2)) =>
                 tr2.db_calls = 0 /\ IsSome(tr2.id) /\ db' = db]_vars

\* a fetch of id 1 that was spawned while the add traversal of vertex 1 was
\* live has yielded vertex 1 at its first pull, after the release
C18_Witness ==
    \E tr \in Live :
        /\ tr.kind = "with_id" /\ tr.target = 1 /\ tr.unflushed0
        /\ tr.yielded = <<created[1]>> /\ tr.db_calls = 1
        /\ 1 \in released

\* the ids of the vertices a traversal has yielded, in the order of the yields
YieldedIds(tr) == [i \in DOMAIN tr.yielded |-> tr.yielded[i].id]

\* C19: vertices() yields the stored vertices in the ascending bytewise order
\* of their keys "vtx_<decimal id>". That is the ascending order of the ids
\* when the ids stored have the same number of digits, and not otherwise:
\* when the vertices 2 and 10 are stored, a drained scan has yielded vertex 10
\* before vertex 2.
C19_ScanInKeyOrder ==
    \A tr \in Live :
        (tr.kind = "vertices" /\ tr.label = None) =>
            LET y == YieldedIds(tr)
            IN /\ \A i, j \in DOMAIN y :
                     i < j => KeyLess(KEY_PREFIX \o Decimal(y[i]),
                                      KEY_PREFIX \o Decimal(y[j]))
               /\ (\A a, b \in tr.released0 : Len(Decimal(a)) = Len(Decimal(b)))
                     => \A i, j \in DOMAIN y : i < j => y[i] < y[j]
               /\ (tr.done /\ {2, 10} \subseteq tr.released0)
                     => \E i, j \in DOMAIN y : i < j /\ y[i] = 10 /\ y[j] = 2

\* the store holds the vertices 2 and 10; a drained vertices() traversal has
\* yielded vertex 10 first and vertex 2 second
C19_Witness ==
    \E tr \in Live :
        /\ tr.kind = "vertices" /\ tr.label = None /\ tr.done
        /\ tr.released0 = {2, 10}
        /\ YieldedIds(tr) = <<10, 2>>

====
